---- MODULE Spec2Model ----
(***************************************************************************)
(* Workflow orchestration of gamecraft-ai: the GameCraftState record, the  *)
(* NodeManager nodes, the conditional edges, WorkflowManager.process_query *)
(* and the CacheService (memory and Redis backends).                       *)
(***************************************************************************)
EXTENDS Integers, Sequences, FiniteSets, TLC

\* ------------------------------------------------------------------ bounds
MaxCalls == 2          \* process_query calls on one WorkflowManager
MaxTime == 10800       \* the clock stops advancing here (seconds)
TimeStep == 3600       \* seconds that pass in one Tick
MaxCacheOps == 3       \* direct cache operations in the cache specification
MaxRounds == 2         \* pairs of concurrent cache requests

\* --------------------------------------------------------- program constants
MIN_DURATION == 5
MAX_DURATION == 20
GAME_TTL == 3600
EVENT_TTL == 7200

\* ------------------------------------------------------------ value domain
\* Python values are tagged: None, an object of a class, the str() of an
\* object, a list.  A dict is a record (function) from keys to values.
None == [t |-> "None"]
Obj(cls, id) == [t |-> "obj", cls |-> cls, id |-> id]
StrOf(cls, id) == [t |-> "str", cls |-> cls, id |-> id]
List(items) == [t |-> "list", items |-> items]
EmptyDict == [k \in {} |-> None]

\* Python truthiness of a tagged value.
Truthy(v) ==
    CASE v.t = "None" -> FALSE
      [] v.t = "list" -> v.items # <<>>
      [] OTHER -> TRUE

DictGet(d, k) == IF k \in DOMAIN d THEN d[k] ELSE "None"

\* dict.update restricted to the keys of the GameCraftState schema: the
\* graph keeps only the channels the schema declares.
Update(s, d) == [f \in DOMAIN s |-> IF f \in DOMAIN d THEN d[f] ELSE s[f]]

\* ------------------------------------------------------------------- inputs
Texts == {<<>>, <<" ">>, <<"a">>, <<" ", "a">>}
Durations == {4, 5, 21}
AVAILABLE_MODELS == {"gpt-4o-mini", "gpt-4o"}
ModelArgs == {"None", "gpt-4o-mini", "gpt-4o", "bogus"}
GameNames == {"g1"}
VideoUrls == {"u1"}
Languages == {"en", "fr"}

RECURSIVE LStrip(_)
LStrip(s) == IF s # <<>> /\ Head(s) = " " THEN LStrip(Tail(s)) ELSE s
RECURSIVE RStrip(_)
RStrip(s) ==
    IF s # <<>> /\ s[Len(s)] = " " THEN RStrip(SubSeq(s, 1, Len(s) - 1)) ELSE s
\* str.strip()
Strip(s) == RStrip(LStrip(s))

\* QueryInput(text=..., duration_minutes=...): the validator on text and the
\* ge/le bounds on duration_minutes; a ValidationError when either fails.
QueryInputValid(text, duration) ==
    /\ Strip(text) # <<>>
    /\ duration >= MIN_DURATION
    /\ duration <= MAX_DURATION

QueryInput(text, duration, qtype, lang) ==
    [text |-> Strip(text), duration_minutes |-> duration,
     query_type |-> qtype, language |-> lang]

\* Mutant: the initial state is already marked as served from cache.
Mut_create_initial_state(text, duration) ==
    [query |-> QueryInput(text, duration, "None", "None"),
     query_metadata |-> EmptyDict,
     game_info |-> None,
     media_assets |-> List(<<>>),
     review_scores |-> List(<<>>),
     event_info |-> None,
     script |-> None,
     processing_time |-> 0,
     cached |-> TRUE,
     errors |-> <<>>,
     warnings |-> <<>>,
     current_step |-> "start",
     completed_steps |-> <<>>]

create_initial_state(text, duration) ==
    [query |-> QueryInput(text, duration, "None", "None"),
     query_metadata |-> EmptyDict,
     game_info |-> None,
     media_assets |-> List(<<>>),
     review_scores |-> List(<<>>),
     event_info |-> None,
     script |-> None,
     processing_time |-> 0,
     cached |-> FALSE,
     errors |-> <<>>,
     warnings |-> <<>>,
     current_step |-> "start",
     completed_steps |-> <<>>]

\* ------------------------------------------------------------ CacheService
\* cs is the CacheService object: [use_redis, cache (the _cache dict), redis
\* (the keys held by the Redis server)].  t is time.time().
Lit(v) == [t |-> "lit", v |-> v]

RECURSIVE ToJsonValue(_)
\* json.dumps(value, default=str) followed by json.loads, on one value: an
\* object that json cannot encode is replaced by its str().
ToJsonValue(v) ==
    CASE v.t = "obj" -> StrOf(v.cls, v.id)
      [] v.t = "list" -> List([i \in DOMAIN v.items |-> ToJsonValue(v.items[i])])
      [] OTHER -> v

JsonDumps(d) == [t |-> "bytes", doc |-> [f \in DOMAIN d |-> ToJsonValue(d[f])]]
JsonLoads(b) == b.doc

DictRemove(d, key) == [k \in DOMAIN d \ {key} |-> d[k]]
DictPut(d, key, e) == [k \in DOMAIN d \cup {key} |-> IF k = key THEN e ELSE d[k]]

\* A memory entry is expired when the clock is strictly past its expiry.
MemoryExpired(entry, t) == t > entry.expires

_get_memory(cs, key, t) ==
    IF key \notin DOMAIN cs.cache
    THEN [cs |-> cs, value |-> None]
    ELSE IF MemoryExpired(cs.cache[key], t)
         THEN [cs |-> [cs EXCEPT !.cache = DictRemove(cs.cache, key)], value |-> None]
         ELSE [cs |-> cs, value |-> cs.cache[key].value]

\* Mutant: the entry is stored without its time to live.
Mut_set_memory(cs, key, value, ttl, t) ==
    [cs |-> [cs EXCEPT !.cache =
                DictPut(cs.cache, key,
                        [value |-> value, expires |-> t, created |-> t])],
     ok |-> TRUE]

_set_memory(cs, key, value, ttl, t) ==
    [cs |-> [cs EXCEPT !.cache =
                DictPut(cs.cache, key,
                        [value |-> value, expires |-> t + ttl, created |-> t])],
     ok |-> TRUE]

\* The Redis server: a key is gone once its expiry time is reached.
RedisLive(store, key, t) == key \in DOMAIN store /\ t < store[key].expire_at

\* redis GET: the stored bytes, or nil.
RedisGet(store, key, t) == IF RedisLive(store, key, t) THEN store[key].data ELSE None

\* redis SETEX: stores data with an expiry; a ttl that is not positive is
\* refused with an error (raised = TRUE).
RedisSetex(store, key, ttl, data, t) ==
    IF ttl <= 0
    THEN [store |-> store, raised |-> TRUE]
    ELSE [store |-> DictPut(store, key, [data |-> data, expire_at |-> t + ttl]),
          raised |-> FALSE]

_get_redis(cs, key, t) ==
    LET cached == RedisGet(cs.redis, key, t)
    IN  IF cached # None
        THEN [cs |-> cs, value |-> JsonLoads(cached)]
        ELSE [cs |-> cs, value |-> None]

_set_redis(cs, key, value, ttl, t) ==
    LET r == RedisSetex(cs.redis, key, ttl, JsonDumps(value), t)
    IN  [cs |-> [cs EXCEPT !.redis = r.store], ok |-> ~r.raised, raised |-> r.raised]

\* CacheService.get
CacheGet(cs, key, t) ==
    IF cs.use_redis THEN _get_redis(cs, key, t) ELSE _get_memory(cs, key, t)

\* CacheService.set: an exception of the backend is caught and reported as False.
CacheSet(cs, key, value, ttl, t) ==
    IF cs.use_redis
    THEN LET r == _set_redis(cs, key, value, ttl, t)
         IN  [cs |-> r.cs, ok |-> IF r.raised THEN FALSE ELSE r.ok]
    ELSE _set_memory(cs, key, value, ttl, t)

\* Mutant: delete reports an entry only while it has not expired.
Mut_CacheDelete(cs, key, t) ==
    IF cs.use_redis
    THEN [cs |-> [cs EXCEPT !.redis = DictRemove(cs.redis, key)],
          ok |-> RedisLive(cs.redis, key, t)]
    ELSE IF key \in DOMAIN cs.cache
         THEN [cs |-> [cs EXCEPT !.cache = DictRemove(cs.cache, key)],
               ok |-> ~MemoryExpired(cs.cache[key], t)]
         ELSE [cs |-> cs, ok |-> FALSE]

\* CacheService.delete
CacheDelete(cs, key, t) ==
    IF cs.use_redis
    THEN [cs |-> [cs EXCEPT !.redis = DictRemove(cs.redis, key)],
          ok |-> RedisLive(cs.redis, key, t)]
    ELSE IF key \in DOMAIN cs.cache
         THEN [cs |-> [cs EXCEPT !.cache = DictRemove(cs.cache, key)], ok |-> TRUE]
         ELSE [cs |-> cs, ok |-> FALSE]

\* CacheService.clear
CacheClear(cs) ==
    IF cs.use_redis
    THEN [cs |-> [cs EXCEPT !.redis = EmptyDict], ok |-> TRUE]
    ELSE [cs |-> [cs EXCEPT !.cache = EmptyDict], ok |-> TRUE]

\* CacheService.__init__ with the connection decided by settings.redis_url.
NewCacheService(use_redis) ==
    [use_redis |-> use_redis, cache |-> EmptyDict, redis |-> EmptyDict]

\* ------------------------------------------------------------ collaborators
\* A collaborator call returns [raised, msg, snap]: snap is the dict it was
\* given (dict(state), which shares the list objects of the running state)
\* as it stands when the call returns or raises.

\* What the language model makes of the query text.
ClassifierOutcomes ==
    {[raises |-> TRUE, query_type |-> "None", language |-> "None",
      game_name |-> "None", video_url |-> "None"]}
    \cup {[raises |-> FALSE, query_type |-> "game", language |-> l,
           game_name |-> g, video_url |-> "None"] :
             l \in Languages, g \in GameNames \cup {"None"}}
    \cup {[raises |-> FALSE, query_type |-> "event", language |-> l,
           game_name |-> "None", video_url |-> u] :
             l \in Languages, u \in VideoUrls \cup {"None"}}

\* ClassifierAgent.classify_query
classify_query(s, out) ==
    IF out.raises
    THEN [raised |-> TRUE, msg |-> "not relevant", snap |-> s]
    ELSE [raised |-> FALSE, msg |-> "",
          snap |-> [s EXCEPT
             !.query = QueryInput(s.query.text, s.query.duration_minutes,
                                  out.query_type, out.language),
             !.query_metadata = [confidence |-> "0.9",
                                 game_name |-> out.game_name,
                                 video_url |-> out.video_url,
                                 script_format |-> "review"]]]

\* What the external lookups answer during one research: whether IGDB knows
\* the game and whether the event video can be analysed (the video search
\* is taken to find one video).
ResearchEnvs ==
    [igdb_found : BOOLEAN, analysis_ok : BOOLEAN]

\* `if cached_data:` on what CacheService.get returned.
CachedTruthy(v) == v # None /\ DOMAIN v # {}

\* No cache key was computed.
NoKey == <<"None">>

GameCacheKey(game_name, language) == <<"game_research", game_name, language>>
EventCacheKey(video_url, language) == <<"event_research", video_url, language>>

FallbackWarning(game_name) == <<"Using fallback data for game", game_name>>

\* ResearchAgent._research_game_content
_research_game_content(s, language, cs, t, env) ==
    LET game_name == DictGet(s.query_metadata, "game_name")
        cache_key == GameCacheKey(game_name, language)
        got == CacheGet(cs, cache_key, t)
        game_info == IF env.igdb_found THEN Obj("GameInfo", "igdb")
                     ELSE Obj("GameInfo", "fallback")
        s1 == IF env.igdb_found THEN s
              ELSE [s EXCEPT !.warnings = Append(@, FallbackWarning(game_name))]
        research_data ==
            [game_info |-> game_info,
             media_assets |-> List(<<Obj("MediaAsset", "video")>>),
             review_scores |-> List(<<Obj("ReviewScore", "IGN"),
                                      Obj("ReviewScore", "GameSpot")>>),
             research_type |-> Lit("game")]
    IN  IF game_name = "None"
        THEN [snap |-> [s EXCEPT !.errors =
                           Append(@, <<"No game name found for research">>)],
              cs |-> cs, lookups |-> {}, key |-> NoKey, stored |-> FALSE]
        ELSE IF CachedTruthy(got.value)
        THEN [snap |-> [Update(s, got.value) EXCEPT !.cached = TRUE],
              cs |-> got.cs, lookups |-> {}, key |-> cache_key, stored |-> FALSE]
        ELSE LET put == CacheSet(got.cs, cache_key, research_data, GAME_TTL, t)
             IN  [snap |-> Update(s1, research_data), cs |-> put.cs,
                  lookups |-> {"igdb", "youtube"}, key |-> cache_key,
                  stored |-> put.ok]

\* Mutant: the event research is cached before the analysis is looked at.
Mut_research_event_content(s, language, cs, t, env) ==
    LET video_url == DictGet(s.query_metadata, "video_url")
        cache_key == EventCacheKey(video_url, language)
        got == CacheGet(cs, cache_key, t)
        research_data ==
            [event_info |-> Obj("EventInfo", video_url),
             game_info |-> List(IF env.igdb_found
                                THEN <<Obj("GameInfo", "igdb")>> ELSE <<>>),
             media_assets |-> List(<<Obj("MediaAsset", "video")>>),
             review_scores |-> List(<<>>),
             research_type |-> Lit("event")]
        put == CacheSet(got.cs, cache_key, research_data, EVENT_TTL, t)
    IN  IF video_url = "None"
        THEN [snap |-> [s EXCEPT !.errors =
                           Append(@, <<"No video URL found for event research">>)],
              cs |-> cs, lookups |-> {}, key |-> NoKey, stored |-> FALSE]
        ELSE IF CachedTruthy(got.value)
        THEN [snap |-> [Update(s, got.value) EXCEPT !.cached = TRUE],
              cs |-> got.cs, lookups |-> {}, key |-> cache_key, stored |-> FALSE]
        ELSE IF ~env.analysis_ok
        THEN [snap |-> [s EXCEPT !.errors =
                           Append(@, <<"Failed to analyze event video">>)],
              cs |-> put.cs, lookups |-> {"youtube"}, key |-> cache_key,
              stored |-> put.ok]
        ELSE [snap |-> Update(s, research_data), cs |-> put.cs,
              lookups |-> {"igdb", "youtube"}, key |-> cache_key,
              stored |-> put.ok]

\* ResearchAgent._research_event_content
_research_event_content(s, language, cs, t, env) ==
    LET video_url == DictGet(s.query_metadata, "video_url")
        cache_key == EventCacheKey(video_url, language)
        got == CacheGet(cs, cache_key, t)
        research_data ==
            [event_info |-> Obj("EventInfo", video_url),
             game_info |-> List(IF env.igdb_found
                                THEN <<Obj("GameInfo", "igdb")>> ELSE <<>>),
             media_assets |-> List(<<Obj("MediaAsset", "video")>>),
             review_scores |-> List(<<>>),
             research_type |-> Lit("event")]
    IN  IF video_url = "None"
        THEN [snap |-> [s EXCEPT !.errors =
                           Append(@, <<"No video URL found for event research">>)],
              cs |-> cs, lookups |-> {}, key |-> NoKey, stored |-> FALSE]
        ELSE IF CachedTruthy(got.value)
        THEN [snap |-> [Update(s, got.value) EXCEPT !.cached = TRUE],
              cs |-> got.cs, lookups |-> {}, key |-> cache_key, stored |-> FALSE]
        ELSE IF ~env.analysis_ok
        THEN [snap |-> [s EXCEPT !.errors =
                           Append(@, <<"Failed to analyze event video">>)],
              cs |-> got.cs, lookups |-> {"youtube"}, key |-> cache_key,
              stored |-> FALSE]
        ELSE LET put == CacheSet(got.cs, cache_key, research_data, EVENT_TTL, t)
             IN  [snap |-> Update(s, research_data), cs |-> put.cs,
                  lookups |-> {"igdb", "youtube"}, key |-> cache_key,
                  stored |-> put.ok]

\* ResearchAgent.conduct_research
conduct_research(s, cs, t, env) ==
    LET query_type == s.query.query_type
        language == s.query.language
    IN  IF query_type = "game" THEN _research_game_content(s, language, cs, t, env)
        ELSE IF query_type = "event"
        THEN _research_event_content(s, language, cs, t, env)
        ELSE [snap |-> [s EXCEPT !.errors =
                           Append(@, <<"Unknown query type for research">>)],
              cs |-> cs, lookups |-> {}, key |-> NoKey, stored |-> FALSE]

\* BaseAgent._update_processing_step
_update_processing_step(s, step_name) ==
    [s EXCEPT !.current_step = step_name,
              !.completed_steps =
                  IF \E i \in DOMAIN @ : @[i] = step_name THEN @
                  ELSE Append(@, step_name)]

\* BaseAgent._add_error
_add_error(s, agent_name, error_message) ==
    [s EXCEPT !.errors = Append(@, <<agent_name, error_message>>)]

\* What the script writer can do with the research it is given: a script
\* needs game or event data to be written from.
ScriptOutcomes(s) ==
    IF Truthy(s.game_info) \/ Truthy(s.event_info)
    THEN {"ok", "error", "raise"} ELSE {"error", "raise"}

\* Mutant: the script writer empties query_metadata in the state it returns.
Mut_write_script(s, out) ==
    IF out = "raise"
    THEN [raised |-> TRUE, msg |-> "script writer failure", snap |-> s]
    ELSE LET s1 == [_update_processing_step(s, "script_generation") EXCEPT
                       !.query_metadata = EmptyDict]
         IN  IF out = "ok"
             THEN [raised |-> FALSE, msg |-> "",
                   snap |-> [s1 EXCEPT !.script = Obj("ScriptOutput", "script")]]
             ELSE [raised |-> FALSE, msg |-> "",
                   snap |-> _add_error(s1, "ScriptWriter", "Failed to generate script")]

\* ScriptWriterAgent.write_script (process -> _write_script_internal)
write_script(s, out) ==
    IF out = "raise"
    THEN [raised |-> TRUE, msg |-> "script writer failure", snap |-> s]
    ELSE LET s1 == _update_processing_step(s, "script_generation")
         IN  IF out = "ok"
             THEN [raised |-> FALSE, msg |-> "",
                   snap |-> [s1 EXCEPT !.script = Obj("ScriptOutput", "script")]]
             ELSE [raised |-> FALSE, msg |-> "",
                   snap |-> _add_error(s1, "ScriptWriter", "Failed to generate script")]

\* The methods the YouTubeCoachAgent class defines.
YouTubeCoachMethods == {"generate_thumbnail_strategies"}

ThumbnailOutcomes == {"ok", "fail"}

\* YouTubeCoachAgent.generate_thumbnail_strategies (its outputs,
\* thumbnail_suggestions and youtube_tips, are no keys of the state schema)
generate_thumbnail_strategies(s, out) ==
    IF ~Truthy(s.script)
    THEN [s EXCEPT !.errors =
             Append(@, <<"No script available for thumbnail generation">>)]
    ELSE IF out = "ok" THEN s
    ELSE [s EXCEPT !.errors = Append(@, <<"Thumbnail generation failed", "failure">>)]

\* ------------------------------------------------------------- NodeManager
\* Mutant: the except branch starts the step log afresh.
Mut_NodeExcept(s1, r, label) ==
    [s1 EXCEPT !.errors = Append(r.snap.errors, <<label, r.msg>>),
               !.warnings = r.snap.warnings,
               !.completed_steps = <<>>]

\* The except branch of a node: state is the dict the node was given; its
\* lists are the objects the collaborator's snapshot shares.
NodeExcept(s1, r, label) ==
    [s1 EXCEPT !.errors = Append(r.snap.errors, <<label, r.msg>>),
               !.warnings = r.snap.warnings,
               !.completed_steps = r.snap.completed_steps]

\* Mutant: the except branch swallows the exception without recording it.
Mut_classify_node(s, out) ==
    LET s1 == [s EXCEPT !.current_step = "classify"]
        r == classify_query(s1, out)
    IN  IF r.raised THEN s1
        ELSE [Update(s1, r.snap) EXCEPT !.completed_steps = Append(@, "classify")]

\* NodeManager.classify_node
classify_node(s, out) ==
    LET s1 == [s EXCEPT !.current_step = "classify"]
        r == classify_query(s1, out)
    IN  IF r.raised THEN NodeExcept(s1, r, "Classification error")
        ELSE [Update(s1, r.snap) EXCEPT !.completed_steps = Append(@, "classify")]

\* NodeManager.research_node: [state, cs, lookups, key, stored]
research_node(s, cs, t, env) ==
    LET s1 == [s EXCEPT !.current_step = "research"]
        r == conduct_research(s1, cs, t, env)
    IN  [state |-> [Update(s1, r.snap) EXCEPT
                       !.completed_steps = Append(@, "research")],
         cs |-> r.cs, lookups |-> r.lookups, key |-> r.key, stored |-> r.stored]

\* NodeManager.script_generation_node
script_generation_node(s, out) ==
    LET s1 == [s EXCEPT !.current_step = "script_generation"]
        r == write_script(s1, out)
    IN  IF r.raised THEN NodeExcept(s1, r, "Script generation error")
        ELSE [Update(s1, r.snap) EXCEPT
                 !.completed_steps = Append(@, "script_generation")]

\* A stand-in for the script writer, as handed to NodeManager.__init__: it
\* may append a warning to the state it is given and may raise afterwards.
DoubleBehaviours == [warns : BOOLEAN, raises : BOOLEAN]

DoubleWarning == <<"double warning">>

double_write_script(s, b) ==
    LET s1 == IF b.warns THEN [s EXCEPT !.warnings = Append(@, DoubleWarning)] ELSE s
    IN  IF b.raises
        THEN [raised |-> TRUE, msg |-> "double failure", snap |-> s1]
        ELSE [raised |-> FALSE, msg |-> "",
              snap |-> [s1 EXCEPT !.script = Obj("ScriptOutput", "script")]]

\* NodeManager.script_generation_node with the stand-in as self.script_writer
script_generation_node_double(s, b) ==
    LET s1 == [s EXCEPT !.current_step = "script_generation"]
        r == double_write_script(s1, b)
    IN  IF r.raised THEN NodeExcept(s1, r, "Script generation error")
        ELSE [Update(s1, r.snap) EXCEPT
                 !.completed_steps = Append(@, "script_generation")]

\* The attribute NodeManager.thumbnail_generation_node looks up on the coach.
ThumbnailMethod == "generate_thumbnails"

\* NodeManager.thumbnail_generation_node: [state, invoked]
thumbnail_generation_node(s, out) ==
    LET s1 == [s EXCEPT !.current_step = "thumbnail_generation"]
    IN  IF ThumbnailMethod \notin YouTubeCoachMethods
        THEN [state |-> NodeExcept(s1,
                 [raised |-> TRUE, snap |-> s1,
                  msg |-> "'YouTubeCoachAgent' object has no attribute 'generate_thumbnails'"],
                 "Thumbnail generation error"),
              invoked |-> FALSE]
        ELSE [state |-> [Update(s1, generate_thumbnail_strategies(s1, out)) EXCEPT
                            !.completed_steps = Append(@, "thumbnail_generation")],
              invoked |-> TRUE]

\* Mutant: the warning is kept for runs that produced no script.
Mut_finish_node(s) ==
    LET s1 == [s EXCEPT !.current_step = "finished",
                        !.completed_steps = Append(@, "finished")]
    IN  IF s1.errors # <<>> /\ ~Truthy(s1.script)
        THEN [s1 EXCEPT !.warnings = Append(@, <<"Processing completed with errors">>)]
        ELSE s1

\* Mutant: the finished marker is written twice.
Mut_finish_node_twice(s) ==
    LET s1 == [s EXCEPT !.current_step = "finished",
                        !.completed_steps = Append(Append(@, "finished"), "finished")]
    IN  IF s1.errors # <<>>
        THEN [s1 EXCEPT !.warnings = Append(@, <<"Processing completed with errors">>)]
        ELSE s1

\* NodeManager.finish_node
finish_node(s) ==
    LET s1 == [s EXCEPT !.current_step = "finished",
                        !.completed_steps = Append(@, "finished")]
    IN  IF s1.errors = <<>> /\ Truthy(s1.script) THEN s1
        ELSE IF s1.errors # <<>>
        THEN [s1 EXCEPT !.warnings = Append(@, <<"Processing completed with errors">>)]
        ELSE s1

\* Mutant: a failed classification is tried again.
Mut_should_continue_to_research_retry(s) ==
    IF s.errors # <<>> THEN "classify" ELSE "research"

\* Mutant: the edge after classify ignores errors.
Mut_should_continue_to_research(s) == "research"

should_continue_to_research(s) ==
    IF s.errors # <<>> THEN "finish" ELSE "research"

\* Mutant: the edge after research ignores errors.
Mut_should_continue_to_script(s) == "script_generation"

\* Mutant: the edge after research also looks at the cached flag.
Mut_should_continue_to_script_cached(s) ==
    IF s.errors # <<>> \/ s.cached THEN "finish" ELSE "script_generation"

should_continue_to_script(s) ==
    IF s.errors # <<>> THEN "finish" ELSE "script_generation"

\* Mutant: the edge after script_generation leads back to research.
Mut_should_continue_to_thumbnails(s) ==
    IF s.errors # <<>> THEN "finish" ELSE "research"

should_continue_to_thumbnails(s) ==
    IF s.errors # <<>> THEN "finish" ELSE "thumbnail_generation"

\* ---------------------------------------------------------- WorkflowManager
OptionalKeys == {"game_info", "media_assets", "review_scores", "event_info", "script"}

\* Mutant: success looks at the script alone.
Mut_format_result(s) ==
    LET keys == {"success", "query_type", "language", "processing_time",
                 "cached", "errors", "warnings"}
                \cup {k \in OptionalKeys : Truthy(s[k])}
    IN  [k \in keys |->
            CASE k = "success" -> Truthy(s.script)
              [] k = "query_type" -> s.query.query_type
              [] k = "language" -> s.query.language
              [] OTHER -> s[k]]

\* Mutant: a warning is enough to deny success.
Mut_format_result_warnings(s) ==
    LET success == Truthy(s.script) /\ s.errors = <<>> /\ s.warnings = <<>>
        keys == {"success", "query_type", "language", "processing_time",
                 "cached", "errors", "warnings"}
                \cup {k \in OptionalKeys : Truthy(s[k])}
    IN  [k \in keys |->
            CASE k = "success" -> success
              [] k = "query_type" -> s.query.query_type
              [] k = "language" -> s.query.language
              [] OTHER -> s[k]]

\* WorkflowManager._format_result
_format_result(s) ==
    LET success == Truthy(s.script) /\ s.errors = <<>>
        keys == {"success", "query_type", "language", "processing_time",
                 "cached", "errors", "warnings"}
                \cup {k \in OptionalKeys : Truthy(s[k])}
    IN  [k \in keys |->
            CASE k = "success" -> success
              [] k = "query_type" -> s.query.query_type
              [] k = "language" -> s.query.language
              [] OTHER -> s[k]]

\* ------------------------------------------------------------------- state
VARIABLES
    pc,             \* where process_query stands: idle, a node name, end, returned, raised
    state,          \* the running GameCraftState of the current call
    result,         \* the Result process_query returned
    llm_model,      \* WorkflowManager.llm_service.model
    cache_service,  \* WorkflowManager.cache_service
    now,            \* time.time()
    start_time,     \* start_time of the current call
    calls,          \* process_query calls made so far
    executed,       \* nodes executed in the current call, in order
    invoked,        \* per collaborator / external service: calls in the current call
    outcome,        \* per node: what its collaborator did in the current call
                    \* (none, ok, error, raised; no_method: it has no such method)
    err_mark,       \* the node during which errors first became non-empty
    cur_research,   \* the research of the current call
    prev_research,  \* the research of the call before
    cache_ops,      \* direct cache operations made so far
    last_set,       \* per key: the latest direct set not followed by delete/clear
    last_get,       \* the latest direct get
    call_args,      \* the arguments of the current process_query call
    node_manager,   \* per collaborator held by the NodeManager: the model it is bound to
    last_op,        \* the latest cache operation made against a backend that can fail
    threads         \* two concurrent requests, one in get and one in set

\* What only some specifications change.
aux == <<node_manager, last_op, threads>>

vars == <<pc, state, result, llm_model, cache_service, now, start_time, calls,
          executed, invoked, outcome, err_mark, cur_research, prev_research,
          cache_ops, last_set, last_get, call_args, node_manager, last_op,
          threads>>

NoState == [none |-> TRUE]
NoResult == [none |-> TRUE]
NoResearch == [key |-> NoKey, at |-> 0, stored |-> FALSE, cached |-> FALSE,
               lookups |-> {}, warm |-> FALSE]
NoMark == [node |-> "None", steps |-> 0]
NoGet == [key |-> NoKey, value |-> None, at |-> 0, op |-> 0]

NoArgs == [text_blank |-> FALSE, duration_minutes |-> 0]
NoOp == [op |-> "none", fault |-> FALSE, raised |-> FALSE, value |-> None,
         ok |-> FALSE, noop |-> TRUE]
IdleThreads ==
    [get_pc |-> "idle", set_pc |-> "idle", key |-> NoKey, cache_entry |-> None,
     value |-> None, set_value |-> None, ttl |-> 0,
     cs0 |-> NewCacheService(FALSE), t0 |-> 0, rounds |-> 0]

\* NodeManager.__init__: the node manager keeps the agents it is handed.
NewNodeManager(model) ==
    [classifier |-> model, script_writer |-> model, youtube_coach |-> model]

Collaborators == {"classifier", "researcher", "script_writer", "youtube_coach",
                  "igdb", "youtube"}
Nodes == {"classify", "research", "script_generation", "thumbnail_generation"}

AllKeys == {GameCacheKey(g, l) : g \in GameNames, l \in Languages}
           \cup {EventCacheKey(u, l) : u \in VideoUrls, l \in Languages}

\* The keys the direct cache operations are tried on.
OpKeys == {GameCacheKey("g1", "en"), EventCacheKey("u1", "en")}

KeyTTL(key) == IF key[1] = "game_research" THEN GAME_TTL ELSE EVENT_TTL

Quiescent == pc \in {"idle", "returned", "raised"}

\* A concurrent request is inside a cache operation.
InFlight ==
    \/ threads.get_pc \notin {"idle", "done"}
    \/ threads.set_pc \notin {"idle", "done"}

Init ==
    /\ pc = "idle"
    /\ state = NoState
    /\ result = NoResult
    /\ llm_model = "gpt-4o-mini"
    /\ \E r \in BOOLEAN : cache_service = NewCacheService(r)
    /\ now = 0
    /\ start_time = 0
    /\ calls = 0
    /\ executed = <<>>
    /\ invoked = [c \in Collaborators |-> 0]
    /\ outcome = [n \in Nodes |-> "none"]
    /\ err_mark = NoMark
    /\ cur_research = NoResearch
    /\ prev_research = NoResearch
    /\ cache_ops = 0
    /\ last_set = [k \in AllKeys |-> None]
    /\ last_get = NoGet
    /\ call_args = NoArgs
    /\ node_manager = NewNodeManager(llm_model)
    /\ last_op = NoOp
    /\ threads = IdleThreads

\* The bookkeeping of a node that ran: the trace, the invocations, and the
\* first node that left errors non-empty.
Ran(node, s2, calledNames, what) ==
    /\ executed' = Append(executed, node)
    /\ invoked' = [c \in Collaborators |->
                     IF c \in calledNames THEN invoked[c] + 1 ELSE invoked[c]]
    /\ outcome' = [outcome EXCEPT ![node] = what]
    /\ err_mark' = IF err_mark.node = "None" /\ s2.errors # <<>>
                   THEN [node |-> node, steps |-> Len(s2.completed_steps)]
                   ELSE err_mark

Did(s, s2, raised) ==
    IF raised THEN "raised"
    ELSE IF Len(s2.errors) > Len(s.errors) THEN "error" ELSE "ok"

\* WorkflowManager.process_query up to workflow.invoke: the model rebuild and
\* create_initial_state, both before the try block.
ProcessQuery(text, duration, model) ==
    /\ Quiescent
    /\ calls < MaxCalls
    /\ calls' = calls + 1
    /\ start_time' = now
    /\ result' = NoResult
    /\ executed' = <<>>
    /\ invoked' = [c \in Collaborators |-> 0]
    /\ outcome' = [n \in Nodes |-> "none"]
    /\ err_mark' = NoMark
    /\ prev_research' = cur_research
    /\ cur_research' = NoResearch
    /\ LET rebuild == model # "None" /\ model # llm_model
       IN  IF rebuild /\ model \notin AVAILABLE_MODELS
           THEN /\ pc' = "raised"
                /\ state' = NoState
                /\ llm_model' = llm_model
           ELSE /\ llm_model' = IF rebuild THEN model ELSE llm_model
                /\ IF QueryInputValid(text, duration)
                   THEN /\ state' = create_initial_state(text, duration)
                        /\ pc' = "classify"
                   ELSE /\ state' = NoState
                        /\ pc' = "raised"
    /\ UNCHANGED <<cache_service, now, cache_ops, last_set, last_get>>
    /\ call_args' = [text_blank |-> Strip(text) = <<>>, duration_minutes |-> duration]
    /\ UNCHANGED aux

ClassifyNode ==
    /\ pc = "classify"
    /\ \E out \in ClassifierOutcomes :
         LET s2 == classify_node(state, out)
         IN  /\ state' = s2
             /\ pc' = should_continue_to_research(s2)
             /\ Ran("classify", s2, {"classifier"}, Did(state, s2, out.raises))
    /\ UNCHANGED <<result, llm_model, cache_service, now, start_time, calls,
                   cur_research, prev_research, cache_ops, last_set, last_get>>
    /\ UNCHANGED <<call_args, aux>>

\* The research key of this call is the key of the call before, asked for
\* before that call's ttl has elapsed (process_query calls are not
\* interleaved with direct cache operations: no delete or clear in between).
SameKeyInsideTTL(key, t) ==
    /\ key # NoKey
    /\ prev_research.key = key
    /\ t < prev_research.at + KeyTTL(key)

ResearchNode ==
    /\ pc = "research"
    /\ \E env \in ResearchEnvs :
         LET r == research_node(state, cache_service, now, env)
         IN  /\ state' = r.state
             /\ cache_service' = r.cs
             /\ pc' = should_continue_to_script(r.state)
             /\ Ran("research", r.state, {"researcher"} \cup r.lookups,
                    Did(state, r.state, FALSE))
             /\ cur_research' = [key |-> r.key, at |-> now, stored |-> r.stored,
                                 cached |-> r.state.cached, lookups |-> r.lookups,
                                 warm |-> SameKeyInsideTTL(r.key, now)]
    /\ UNCHANGED <<result, llm_model, now, start_time, calls, prev_research,
                   cache_ops, last_set, last_get>>
    /\ UNCHANGED <<call_args, aux>>

ScriptGenerationNode ==
    /\ pc = "script_generation"
    /\ \E out \in ScriptOutcomes(state) :
         LET s2 == script_generation_node(state, out)
         IN  /\ state' = s2
             /\ pc' = should_continue_to_thumbnails(s2)
             /\ Ran("script_generation", s2, {"script_writer"},
                    Did(state, s2, out = "raise"))
    /\ UNCHANGED <<result, llm_model, cache_service, now, start_time, calls,
                   cur_research, prev_research, cache_ops, last_set, last_get>>
    /\ UNCHANGED <<call_args, aux>>

ThumbnailGenerationNode ==
    /\ pc = "thumbnail_generation"
    /\ \E out \in ThumbnailOutcomes :
         LET r == thumbnail_generation_node(state, out)
         IN  /\ state' = r.state
             /\ pc' = "finish"
             /\ Ran("thumbnail_generation", r.state,
                    IF r.invoked THEN {"youtube_coach"} ELSE {},
                    IF r.invoked THEN Did(state, r.state, FALSE) ELSE "no_method")
    /\ UNCHANGED <<result, llm_model, cache_service, now, start_time, calls,
                   cur_research, prev_research, cache_ops, last_set, last_get>>
    /\ UNCHANGED <<call_args, aux>>

ScriptGenerationNodeDouble ==
    /\ pc = "script_generation"
    /\ \E b \in DoubleBehaviours :
         LET s2 == script_generation_node_double(state, b)
         IN  /\ state' = s2
             /\ pc' = should_continue_to_thumbnails(s2)
             /\ Ran("script_generation", s2, {"script_writer"},
                    Did(state, s2, b.raises))
    /\ UNCHANGED <<result, llm_model, cache_service, now, start_time, calls,
                   cur_research, prev_research, cache_ops, last_set, last_get>>
    /\ UNCHANGED <<call_args, aux>>

FinishNode ==
    /\ pc = "finish"
    /\ state' = finish_node(state)
    /\ pc' = "end"
    /\ executed' = Append(executed, "finish")
    /\ UNCHANGED <<result, llm_model, cache_service, now, start_time, calls,
                   invoked, outcome, err_mark, cur_research, prev_research,
                   cache_ops, last_set, last_get>>
    /\ UNCHANGED <<call_args, aux>>

\* process_query after workflow.invoke returned: the elapsed time and
\* _format_result.
ReturnResult ==
    /\ pc = "end"
    /\ state' = [state EXCEPT !.processing_time = now - start_time]
    /\ result' = _format_result(state')
    /\ pc' = "returned"
    /\ UNCHANGED <<llm_model, cache_service, now, start_time, calls, executed,
                   invoked, outcome, err_mark, cur_research, prev_research,
                   cache_ops, last_set, last_get>>
    /\ UNCHANGED <<call_args, aux>>

\* Time passes between calls and between direct cache operations.
Tick ==
    /\ Quiescent
    /\ ~InFlight
    /\ now + TimeStep <= MaxTime
    /\ now' = now + TimeStep
    /\ UNCHANGED <<pc, state, result, llm_model, cache_service, start_time, calls,
                   executed, invoked, outcome, err_mark, cur_research,
                   prev_research, cache_ops, last_set, last_get>>
    /\ UNCHANGED <<call_args, aux>>

\* ------------------------------------------------- direct cache operations
CacheValues == {[data |-> Obj("GameInfo", "igdb")], [data |-> Lit("plain")]}
CacheTTLs == {0, GAME_TTL}

DoCacheSet(key, value, ttl) ==
    /\ Quiescent
    /\ cache_ops < MaxCacheOps
    /\ cache_ops' = cache_ops + 1
    /\ LET r == CacheSet(cache_service, key, value, ttl, now)
       IN  /\ cache_service' = r.cs
           /\ last_set' = [last_set EXCEPT ![key] =
                  [t |-> "set", value |-> value, ttl |-> ttl, at |-> now,
                   ok |-> r.ok, op |-> cache_ops']]
    /\ UNCHANGED <<pc, state, result, llm_model, now, start_time, calls, executed,
                   invoked, outcome, err_mark, cur_research, prev_research,
                   last_get>>
    /\ UNCHANGED <<call_args, aux>>

DoCacheGet(key) ==
    /\ Quiescent
    /\ cache_ops < MaxCacheOps
    /\ cache_ops' = cache_ops + 1
    /\ LET r == CacheGet(cache_service, key, now)
       IN  /\ cache_service' = r.cs
           /\ last_get' = [key |-> key, value |-> r.value, at |-> now,
                            op |-> cache_ops']
    /\ UNCHANGED <<pc, state, result, llm_model, now, start_time, calls, executed,
                   invoked, outcome, err_mark, cur_research, prev_research,
                   last_set>>
    /\ UNCHANGED <<call_args, aux>>

DoCacheDelete(key) ==
    /\ Quiescent
    /\ cache_ops < MaxCacheOps
    /\ cache_ops' = cache_ops + 1
    /\ cache_service' = CacheDelete(cache_service, key, now).cs
    /\ last_set' = [last_set EXCEPT ![key] = None]
    /\ UNCHANGED <<pc, state, result, llm_model, now, start_time, calls, executed,
                   invoked, outcome, err_mark, cur_research, prev_research, last_get>>
    /\ UNCHANGED <<call_args, aux>>

DoCacheClear ==
    /\ Quiescent
    /\ cache_ops < MaxCacheOps
    /\ cache_ops' = cache_ops + 1
    /\ cache_service' = CacheClear(cache_service).cs
    /\ last_set' = [k \in AllKeys |-> None]
    /\ UNCHANGED <<pc, state, result, llm_model, now, start_time, calls, executed,
                   invoked, outcome, err_mark, cur_research, prev_research, last_get>>
    /\ UNCHANGED <<call_args, aux>>

\* -------------------------------------- CacheService on a failing backend
\* fault: the Redis client call of this operation raises (connection lost);
\* the memory backend has nothing that fails.  Each operation is the method
\* with its try / except: [cs, value or ok, raised].
BackendFails(cs, fault) == cs.use_redis /\ fault

\* Mutant: get lets the backend's exception through.
Mut_GuardedGet(cs, key, t, fault) ==
    IF BackendFails(cs, fault)
    THEN [cs |-> cs, value |-> None, raised |-> TRUE]
    ELSE LET r == CacheGet(cs, key, t)
         IN  [cs |-> r.cs, value |-> r.value, raised |-> FALSE]

\* CacheService.get
GuardedGet(cs, key, t, fault) ==
    IF BackendFails(cs, fault)
    THEN [cs |-> cs, value |-> None, raised |-> FALSE]
    ELSE LET r == CacheGet(cs, key, t)
         IN  [cs |-> r.cs, value |-> r.value, raised |-> FALSE]

\* CacheService.set
GuardedSet(cs, key, value, ttl, t, fault) ==
    IF BackendFails(cs, fault)
    THEN [cs |-> cs, ok |-> FALSE, raised |-> FALSE]
    ELSE LET r == CacheSet(cs, key, value, ttl, t)
         IN  [cs |-> r.cs, ok |-> r.ok, raised |-> FALSE]

\* CacheService.delete
GuardedDelete(cs, key, t, fault) ==
    IF BackendFails(cs, fault)
    THEN [cs |-> cs, ok |-> FALSE, raised |-> FALSE]
    ELSE LET r == CacheDelete(cs, key, t)
         IN  [cs |-> r.cs, ok |-> r.ok, raised |-> FALSE]

\* CacheService.clear
GuardedClear(cs, fault) ==
    IF BackendFails(cs, fault)
    THEN [cs |-> cs, ok |-> FALSE, raised |-> FALSE]
    ELSE LET r == CacheClear(cs)
         IN  [cs |-> r.cs, ok |-> r.ok, raised |-> FALSE]

\* The expired entries of the memory store.
ExpiredKeys(cs, t) == {k \in DOMAIN cs.cache : MemoryExpired(cs.cache[k], t)}

\* Mutant: get_stats sweeps the expired entries it counts.
Mut_get_stats(cs, t, fault) ==
    IF cs.use_redis
    THEN [cs |-> cs, raised |-> FALSE,
          stats |-> IF fault THEN [type |-> "redis", status |-> "error"]
                    ELSE [type |-> "redis",
                          keys |-> Cardinality({k \in DOMAIN cs.redis :
                                                  RedisLive(cs.redis, k, t)})]]
    ELSE [cs |-> [cs EXCEPT !.cache =
                     [k \in DOMAIN cs.cache \ ExpiredKeys(cs, t) |-> cs.cache[k]]],
          raised |-> FALSE,
          stats |-> [type |-> "memory",
                     total_entries |-> Cardinality(DOMAIN cs.cache),
                     active_entries |-> Cardinality(DOMAIN cs.cache)
                                          - Cardinality(ExpiredKeys(cs, t)),
                     expired_entries |-> Cardinality(ExpiredKeys(cs, t))]]

\* CacheService.get_stats: [cs, stats]
get_stats(cs, t, fault) ==
    IF cs.use_redis
    THEN [cs |-> cs, raised |-> FALSE,
          stats |-> IF fault THEN [type |-> "redis", status |-> "error"]
                    ELSE [type |-> "redis",
                          keys |-> Cardinality({k \in DOMAIN cs.redis :
                                                  RedisLive(cs.redis, k, t)})]]
    ELSE [cs |-> cs, raised |-> FALSE,
          stats |-> [type |-> "memory",
                     total_entries |-> Cardinality(DOMAIN cs.cache),
                     active_entries |-> Cardinality(DOMAIN cs.cache)
                                          - Cardinality(ExpiredKeys(cs, t)),
                     expired_entries |-> Cardinality(ExpiredKeys(cs, t))]]

\* The record of an operation that was made: what it returned and whether
\* it left the store as it was.
OpRecord(op, fault, r, value, ok) ==
    [op |-> op, fault |-> BackendFails(cache_service, fault),
     raised |-> r.raised, value |-> value, ok |-> ok,
     noop |-> r.cs = cache_service]

DoGuardedGet(key, fault) ==
    /\ Quiescent
    /\ cache_ops < MaxCacheOps
    /\ cache_ops' = cache_ops + 1
    /\ LET r == GuardedGet(cache_service, key, now, fault)
       IN  /\ cache_service' = r.cs
           /\ last_op' = OpRecord("get", fault, r, r.value, FALSE)
    /\ UNCHANGED <<pc, state, result, llm_model, now, start_time, calls, executed,
                   invoked, outcome, err_mark, cur_research, prev_research,
                   last_set, last_get, call_args, node_manager, threads>>

DoGuardedSet(key, value, ttl, fault) ==
    /\ Quiescent
    /\ cache_ops < MaxCacheOps
    /\ cache_ops' = cache_ops + 1
    /\ LET r == GuardedSet(cache_service, key, value, ttl, now, fault)
       IN  /\ cache_service' = r.cs
           /\ last_op' = OpRecord("set", fault, r, None, r.ok)
    /\ UNCHANGED <<pc, state, result, llm_model, now, start_time, calls, executed,
                   invoked, outcome, err_mark, cur_research, prev_research,
                   last_set, last_get, call_args, node_manager, threads>>

DoGuardedDelete(key, fault) ==
    /\ Quiescent
    /\ cache_ops < MaxCacheOps
    /\ cache_ops' = cache_ops + 1
    /\ LET r == GuardedDelete(cache_service, key, now, fault)
       IN  /\ cache_service' = r.cs
           /\ last_op' = OpRecord("delete", fault, r, None, r.ok)
    /\ UNCHANGED <<pc, state, result, llm_model, now, start_time, calls, executed,
                   invoked, outcome, err_mark, cur_research, prev_research,
                   last_set, last_get, call_args, node_manager, threads>>

DoGuardedClear(fault) ==
    /\ Quiescent
    /\ cache_ops < MaxCacheOps
    /\ cache_ops' = cache_ops + 1
    /\ LET r == GuardedClear(cache_service, fault)
       IN  /\ cache_service' = r.cs
           /\ last_op' = OpRecord("clear", fault, r, None, r.ok)
    /\ UNCHANGED <<pc, state, result, llm_model, now, start_time, calls, executed,
                   invoked, outcome, err_mark, cur_research, prev_research,
                   last_set, last_get, call_args, node_manager, threads>>

DoGetStats(fault) ==
    /\ Quiescent
    /\ cache_ops < MaxCacheOps
    /\ cache_ops' = cache_ops + 1
    /\ LET r == get_stats(cache_service, now, fault)
       IN  /\ cache_service' = r.cs
           /\ last_op' = OpRecord("get_stats", fault, r, r.stats, TRUE)
    /\ UNCHANGED <<pc, state, result, llm_model, now, start_time, calls, executed,
                   invoked, outcome, err_mark, cur_research, prev_research,
                   last_set, last_get, call_args, node_manager, threads>>

\* ------------------------------------------- concurrent cache operations
\* Two requests share the CacheService: one is in get(key), the other in
\* set(key, value, ttl).  No lock is taken; a thread switch can come between
\* any two statements of _get_memory.  The operations are short: the clock
\* does not advance while one is in flight.
StartRequests(key, value, ttl) ==
    /\ Quiescent
    /\ ~InFlight
    /\ threads.rounds < MaxRounds
    /\ threads' = [get_pc |-> "get", set_pc |-> "set", key |-> key,
                   cache_entry |-> None, value |-> None, set_value |-> value,
                   ttl |-> ttl, cs0 |-> cache_service, t0 |-> now,
                   rounds |-> threads.rounds + 1]
    /\ UNCHANGED <<pc, state, result, llm_model, cache_service, now, start_time,
                   calls, executed, invoked, outcome, err_mark, cur_research,
                   prev_research, cache_ops, last_set, last_get, call_args,
                   node_manager, last_op>>

\* get: the Redis GET, or `if key not in self._cache: return None`.
GetEnter ==
    /\ threads.get_pc = "get"
    /\ IF cache_service.use_redis
       THEN threads' = [threads EXCEPT
                          !.value = _get_redis(cache_service, threads.key, now).value,
                          !.get_pc = "done"]
       ELSE IF threads.key \notin DOMAIN cache_service.cache
       THEN threads' = [threads EXCEPT !.value = None, !.get_pc = "done"]
       ELSE threads' = [threads EXCEPT !.get_pc = "read"]
    /\ UNCHANGED <<pc, state, result, llm_model, cache_service, now, start_time,
                   calls, executed, invoked, outcome, err_mark, cur_research,
                   prev_research, cache_ops, last_set, last_get, call_args,
                   node_manager, last_op>>

\* `cache_entry = self._cache[key]`; a KeyError ends in get's except branch.
GetRead ==
    /\ threads.get_pc = "read"
    /\ IF threads.key \in DOMAIN cache_service.cache
       THEN threads' = [threads EXCEPT
                          !.cache_entry = cache_service.cache[threads.key],
                          !.get_pc = "expiry"]
       ELSE threads' = [threads EXCEPT !.value = None, !.get_pc = "done"]
    /\ UNCHANGED <<pc, state, result, llm_model, cache_service, now, start_time,
                   calls, executed, invoked, outcome, err_mark, cur_research,
                   prev_research, cache_ops, last_set, last_get, call_args,
                   node_manager, last_op>>

\* `if time.time() > cache_entry["expires"]`, else return the value.
GetExpiry ==
    /\ threads.get_pc = "expiry"
    /\ IF MemoryExpired(threads.cache_entry, now)
       THEN threads' = [threads EXCEPT !.get_pc = "del"]
       ELSE threads' = [threads EXCEPT !.value = threads.cache_entry.value,
                                       !.get_pc = "done"]
    /\ UNCHANGED <<pc, state, result, llm_model, cache_service, now, start_time,
                   calls, executed, invoked, outcome, err_mark, cur_research,
                   prev_research, cache_ops, last_set, last_get, call_args,
                   node_manager, last_op>>

\* `del self._cache[key]; return None`
GetDel ==
    /\ threads.get_pc = "del"
    /\ cache_service' = [cache_service EXCEPT
                            !.cache = DictRemove(cache_service.cache, threads.key)]
    /\ threads' = [threads EXCEPT !.value = None, !.get_pc = "done"]
    /\ UNCHANGED <<pc, state, result, llm_model, now, start_time,
                   calls, executed, invoked, outcome, err_mark, cur_research,
                   prev_research, cache_ops, last_set, last_get, call_args,
                   node_manager, last_op>>

\* set: one dict assignment, or one Redis SETEX.
SetStore ==
    /\ threads.set_pc = "set"
    /\ cache_service' = CacheSet(cache_service, threads.key, threads.set_value,
                                 threads.ttl, now).cs
    /\ threads' = [threads EXCEPT !.set_pc = "done"]
    /\ UNCHANGED <<pc, state, result, llm_model, now, start_time,
                   calls, executed, invoked, outcome, err_mark, cur_research,
                   prev_research, cache_ops, last_set, last_get, call_args,
                   node_manager, last_op>>

\* ---------------------------------------------------------- specifications
Next ==
    \/ \E text \in Texts, duration \in Durations, model \in ModelArgs :
         ProcessQuery(text, duration, model)
    \/ ClassifyNode
    \/ ResearchNode
    \/ ScriptGenerationNode
    \/ ThumbnailGenerationNode
    \/ FinishNode
    \/ ReturnResult
    \/ Tick

Spec == Init /\ [][Next]_vars

\* The cache on its own: direct operations and the clock.
NextCache ==
    \/ \E key \in OpKeys, value \in CacheValues, ttl \in CacheTTLs :
         DoCacheSet(key, value, ttl)
    \/ \E key \in OpKeys : DoCacheGet(key)
    \/ \E key \in OpKeys : DoCacheDelete(key)
    \/ DoCacheClear
    \/ Tick

SpecCache == Init /\ [][NextCache]_vars

\* _format_result on its own: process_query's last step applied to every
\* shape of final state the graph can hand back.
FinalStates ==
    {[create_initial_state(<<"a">>, MIN_DURATION) EXCEPT
         !.script = sc, !.errors = er, !.warnings = wa, !.cached = ca,
         !.game_info = gi, !.current_step = "finished",
         !.completed_steps = <<"finished">>] :
       sc \in {None, Obj("ScriptOutput", "script")},
       er \in {<<>>, <<<<"Classification error", "not relevant">>>>,
               <<<<"No game name found for research">>>>},
       wa \in {<<>>, <<<<"Processing completed with errors">>>>},
       ca \in BOOLEAN,
       gi \in {None, Obj("GameInfo", "igdb")}}

InitFormat ==
    /\ pc = "end"
    /\ state \in FinalStates
    /\ result = NoResult
    /\ llm_model = "gpt-4o-mini"
    /\ \E r \in BOOLEAN : cache_service = NewCacheService(r)
    /\ now \in {0, TimeStep}
    /\ start_time = 0
    /\ calls = 1
    /\ executed = <<"finish">>
    /\ invoked = [c \in Collaborators |-> 0]
    /\ outcome = [n \in Nodes |-> "none"]
    /\ err_mark = NoMark
    /\ cur_research = NoResearch
    /\ prev_research = NoResearch
    /\ cache_ops = 0
    /\ last_set = [k \in AllKeys |-> None]
    /\ last_get = NoGet
    /\ call_args = NoArgs
    /\ node_manager = NewNodeManager(llm_model)
    /\ last_op = NoOp
    /\ threads = IdleThreads

NextFormat == ReturnResult \/ Tick

SpecFormat == InitFormat /\ [][NextFormat]_vars

\* process_query when workflow.invoke raises: the except branch builds the
\* degraded result from initial_state, whose query was never classified
\* (classify_query stores a new QueryInput in its own copy of the state).
InvokeRaises ==
    /\ pc \in Nodes \cup {"finish", "end"}
    /\ result' = [success |-> FALSE,
                  error |-> "workflow failure",
                  processing_time |-> now - start_time,
                  query_type |-> "None",
                  language |-> "None"]
    /\ pc' = "returned"
    /\ UNCHANGED <<state, llm_model, cache_service, now, start_time, calls,
                   executed, invoked, outcome, err_mark, cur_research,
                   prev_research, cache_ops, last_set, last_get, call_args, aux>>

\* process_query with both ways out of the try block.
NextDegraded == Next \/ InvokeRaises

SpecDegraded == Init /\ [][NextDegraded]_vars

\* The cache on a backend that can fail at any operation.
NextCacheFault ==
    \/ \E key \in OpKeys, fault \in BOOLEAN : DoGuardedGet(key, fault)
    \/ \E key \in OpKeys, value \in CacheValues, ttl \in CacheTTLs, fault \in BOOLEAN :
         DoGuardedSet(key, value, ttl, fault)
    \/ \E key \in OpKeys, fault \in BOOLEAN : DoGuardedDelete(key, fault)
    \/ \E fault \in BOOLEAN : DoGuardedClear(fault)
    \/ Tick

SpecCacheFault == Init /\ [][NextCacheFault]_vars

\* Pairs of concurrent requests on the cache, with time passing between pairs.
NextConc ==
    \/ \E key \in OpKeys, value \in CacheValues, ttl \in CacheTTLs :
         StartRequests(key, value, ttl)
    \/ GetEnter
    \/ GetRead
    \/ GetExpiry
    \/ GetDel
    \/ SetStore
    \/ Tick

SpecConc == Init /\ [][NextConc]_vars

\* The workflow with a stand-in script writer.
NextDouble ==
    \/ \E text \in Texts, duration \in Durations, model \in ModelArgs :
         ProcessQuery(text, duration, model)
    \/ ClassifyNode
    \/ ResearchNode
    \/ ScriptGenerationNodeDouble
    \/ ThumbnailGenerationNode
    \/ FinishNode
    \/ ReturnResult
    \/ Tick

SpecDouble == Init /\ [][NextDouble]_vars

\* Every operation of the cache, get_stats included.
NextCacheOps ==
    \/ NextCacheFault
    \/ \E fault \in BOOLEAN : DoGetStats(fault)

SpecCacheOps == Init /\ [][NextCacheOps]_vars

\* ------------------------------------------------------------------ claims
Last(seq) == seq[Len(seq)]
NoDuplicates(seq) == \A i, j \in DOMAIN seq : i # j => seq[i] # seq[j]
Rank(node) ==
    CASE node = "classify" -> 1
      [] node = "research" -> 2
      [] node = "script_generation" -> 3
      [] node = "thumbnail_generation" -> 4
      [] node = "finish" -> 5

\* C1: process_query returns a Result for every input and never lets an
\* exception reach its caller.
C1_NeverRaises == pc # "raised"

\* C2: in every returned Result, success is true exactly when the final
\* state's script is non-null and its errors list is empty.
C2_SuccessIff ==
    pc = "returned" =>
        (result.success <=> (state.script # None /\ Len(state.errors) = 0))

C2_Witness == pc = "returned" /\ result.success /\ state.warnings # <<>>

\* C3: once errors is non-empty at the end of node N (classify, research or
\* script_generation), only finish executes after N and every entry that
\* completed_steps gains after N is "finished".
C3_ShortCircuit ==
    err_mark.node \in {"classify", "research", "script_generation"} =>
        /\ \A i, j \in DOMAIN executed :
             (executed[i] = err_mark.node /\ i < j) => executed[j] = "finish"
        /\ \A j \in DOMAIN state.completed_steps :
             j > err_mark.steps => state.completed_steps[j] = "finished"
        /\ pc \in {"finish", "end", "returned"}

C3_Witness ==
    /\ pc = "returned"
    /\ err_mark.node = "research"
    /\ outcome["research"] = "error"
    /\ Last(state.completed_steps) = "finished"

\* C4: completed_steps never holds the same step name twice.
C4_DuplicateFree == state # NoState => NoDuplicates(state.completed_steps)

\* C5: when classifier, researcher, script writer and thumbnail strategist
\* all succeed, the run ends with success, a script, no errors and
\* completed_steps = classify, research, script_generation,
\* thumbnail_generation, finished.
C5_HappyPath ==
    (/\ pc = "returned"
     /\ outcome["classify"] = "ok"
     /\ outcome["research"] = "ok"
     /\ outcome["script_generation"] = "ok"
     /\ outcome["thumbnail_generation"] \notin {"none", "error", "raised"})
    => /\ result.success
       /\ state.script # None
       /\ state.errors = <<>>
       /\ state.completed_steps =
            <<"classify", "research", "script_generation",
              "thumbnail_generation", "finished">>

ClassifyRaised == pc = "returned" /\ outcome["classify"] = "raised"

OthersNeverInvoked ==
    /\ invoked["researcher"] = 0
    /\ invoked["script_writer"] = 0
    /\ invoked["youtube_coach"] = 0
    /\ invoked["igdb"] = 0
    /\ invoked["youtube"] = 0

\* C6 as stated: when the classifier raises, the run ends with
\* success = false, errors = one entry "classify error: <message>",
\* completed_steps = ["finished"], and no other collaborator invoked.
C6_Original ==
    ClassifyRaised =>
        /\ ~result.success
        /\ Len(state.errors) = 1
        /\ Len(state.errors[1]) = 2
        /\ state.errors[1][1] = "classify error"
        /\ state.completed_steps = <<"finished">>
        /\ OthersNeverInvoked

\* C6 (amended): when the classifier raises, the run ends with
\* success = false, errors = one entry "Classification error: <message>",
\* completed_steps = ["finished"], and no other collaborator invoked.
C6_ClassifyRaises ==
    ClassifyRaised =>
        /\ ~result.success
        /\ Len(state.errors) = 1
        /\ Len(state.errors[1]) = 2
        /\ state.errors[1][1] = "Classification error"
        /\ state.completed_steps = <<"finished">>
        /\ OthersNeverInvoked

C6_Witness == ClassifyRaised /\ executed = <<"classify", "finish">>

WarmResult ==
    /\ result.cached = TRUE
    /\ invoked["igdb"] = 0
    /\ invoked["youtube"] = 0

\* C7 as stated: a call whose research key is the key of the call before,
\* inside the ttl, gets cached = true without any IGDB / YouTube lookup.
C7_Original == (pc = "returned" /\ cur_research.warm) => WarmResult

\* C7 (amended): the same, provided the research of the call before ended
\* without error on a cache miss and so stored its result, the ttl being
\* counted from that store.
C7_WarmCache ==
    (pc = "returned" /\ cur_research.warm /\ prev_research.stored) => WarmResult

C7_Witness ==
    /\ pc = "returned"
    /\ cur_research.warm
    /\ prev_research.stored
    /\ now > prev_research.at
    /\ result.cached = TRUE

\* C8: a get(k) that follows set(k, v, ttl), with no set, delete or clear of
\* k in between, returns v before the ttl has elapsed and absent after it.
C8_RoundTrip ==
    LET k == last_get.key
    IN  (k # NoKey /\ last_set[k] # None /\ last_get.op > last_set[k].op) =>
            /\ last_get.at < last_set[k].at + last_set[k].ttl
                   => last_get.value = last_set[k].value
            /\ last_get.at > last_set[k].at + last_set[k].ttl
                   => last_get.value = None

\* C9: every call of a node appends to completed_steps or to errors.
C9_NodeTotal ==
    [][(pc \in Nodes) =>
          (Len(state'.completed_steps) > Len(state.completed_steps)
           \/ Len(state'.errors) > Len(state.errors))]_vars

C9_Witness ==
    /\ pc = "finish"
    /\ outcome["script_generation"] = "raised"
    /\ state.completed_steps = <<"classify", "research">>

\* The node at pc has an outcome to run with (the nodes themselves are total).
CanRun ==
    CASE pc = "classify" -> ClassifierOutcomes # {}
      [] pc = "research" -> ResearchEnvs # {}
      [] pc = "script_generation" -> ScriptOutcomes(state) # {}
      [] pc = "thumbnail_generation" -> ThumbnailOutcomes # {}
      [] OTHER -> TRUE

\* C10: a run visits nodes in strictly forward order, at most five of them,
\* is never stuck before finish has run, and ends with finish as the last
\* node it ran.
C10_Terminates ==
    pc \notin {"idle", "raised"} =>
        /\ Len(executed) <= 5
        /\ \A i, j \in DOMAIN executed :
             i < j => Rank(executed[i]) < Rank(executed[j])
        /\ CanRun
        /\ pc \in Nodes \cup {"finish"} =>
               (executed = <<>> \/ Rank(Last(executed)) < Rank(pc))
        /\ pc \in {"end", "returned"} => Last(executed) = "finish"

C10_Witness == pc = "returned" /\ Len(executed) = 5

InvalidArgs ==
    \/ call_args.text_blank
    \/ call_args.duration_minutes < MIN_DURATION
    \/ call_args.duration_minutes > MAX_DURATION

\* C11: a call with a blank query text or a duration outside 5..20 returns
\* a Result with success = false, and no graph node is executed.
C11_FailFast ==
    (pc \in {"raised", "returned"} /\ InvalidArgs) =>
        /\ pc = "returned"
        /\ ~result.success
        /\ executed = <<>>

\* C12: every language-model collaborator a node invokes during a call is
\* bound to the model the WorkflowManager is bound to for that call.
C12_ReboundCollaborators ==
    \A c \in DOMAIN node_manager :
        invoked[c] > 0 => node_manager[c] = llm_model

\* C13: every returned Result with success = false carries a non-empty
\* errors list.
C13_ErrorsOnFailure ==
    (pc = "returned" /\ ~result.success) =>
        /\ "errors" \in DOMAIN result
        /\ result.errors # <<>>

ResultFields ==
    {"success", "query_type", "language", "processing_time", "cached",
     "errors", "warnings"}

\* C16: every returned Result, normal or degraded, has the fields success,
\* query_type, language, processing_time, cached, errors and warnings.
C16_ResultFields == pc = "returned" => ResultFields \subseteq DOMAIN result

\* C14: warnings never flips success.  Two final states that agree on
\* script and errors get the same success whatever their warnings, cached
\* and research fields are, and appending a warning leaves success as it is.
C14_WarningsNeutral ==
    pc = "returned" =>
        /\ \A s2 \in FinalStates :
             (s2.script = state.script /\ s2.errors = state.errors)
                 => _format_result(s2).success = result.success
        /\ _format_result([state EXCEPT
               !.warnings = Append(@, <<"Using fallback data for game", "g1">>)]).success
             = result.success

C14_Witness ==
    /\ pc = "returned"
    /\ result.success
    /\ state.cached
    /\ state.warnings # <<>>
    /\ state.game_info # None

\* C15: a run whose classify, research and script_generation completed
\* without error and produced a script ends with success = true, whatever
\* thumbnail generation did.
C15_ThumbnailOptional ==
    (/\ pc = "returned"
     /\ outcome["classify"] = "ok"
     /\ outcome["research"] = "ok"
     /\ outcome["script_generation"] = "ok"
     /\ state.script # None)
    => result.success

\* C19: the state create_initial_state returns for a valid input has every
\* list field empty (not null), game_info, event_info and script null,
\* cached false and current_step "start".
C19_InitialState ==
    pc = "classify" =>
        /\ state.media_assets = List(<<>>)
        /\ state.review_scores = List(<<>>)
        /\ state.errors = <<>>
        /\ state.warnings = <<>>
        /\ state.completed_steps = <<>>
        /\ state.game_info = None
        /\ state.event_info = None
        /\ state.script = None
        /\ state.cached = FALSE
        /\ state.current_step = "start"

C19_Witness == pc = "classify" /\ calls = 2 /\ now > 0 /\ ~InvalidArgs

\* The same state with other values in fields the routing must not look at.
RoutingVariants(s) ==
    {[s EXCEPT !.cached = ca, !.script = sc, !.warnings = wa] :
        ca \in BOOLEAN,
        sc \in {None, Obj("ScriptOutput", "script")},
        wa \in {<<>>, <<<<"Processing completed with errors">>>>}}

\* C20: the edge taken after classify, research and script_generation is
\* finish exactly when errors is non-empty, and research, script_generation
\* and thumbnail_generation otherwise; the choice is the same for every
\* state with the same errors; thumbnail_generation always leads to finish.
C20_Routing ==
    [][/\ (pc = "classify") =>
             pc' = IF state'.errors # <<>> THEN "finish" ELSE "research"
       /\ (pc = "research") =>
             pc' = IF state'.errors # <<>> THEN "finish" ELSE "script_generation"
       /\ (pc = "script_generation") =>
             pc' = IF state'.errors # <<>> THEN "finish" ELSE "thumbnail_generation"
       /\ (pc = "thumbnail_generation") => pc' = "finish"
       /\ (pc \in Nodes) =>
             \A s2 \in RoutingVariants(state') :
                /\ should_continue_to_research(s2) = should_continue_to_research(state')
                /\ should_continue_to_script(s2) = should_continue_to_script(state')
                /\ should_continue_to_thumbnails(s2) =
                      should_continue_to_thumbnails(state')]_vars

C20_Witness ==
    /\ pc = "script_generation"
    /\ state.cached
    /\ state.errors = <<>>
    /\ executed = <<"classify", "research">>

SeqGetThenSet(cs, key, value, ttl, t) ==
    LET g == CacheGet(cs, key, t)
        st == CacheSet(g.cs, key, value, ttl, t)
    IN  [cs |-> st.cs, value |-> g.value]

\* What set(k, v, ttl) then get(k) leaves and returns, run one after the other.
SeqSetThenGet(cs, key, value, ttl, t) ==
    LET st == CacheSet(cs, key, value, ttl, t)
        g == CacheGet(st.cs, key, t)
    IN  [cs |-> g.cs, value |-> g.value]

\* C18: a get(k) and a set(k, v, ttl) made by two concurrent requests leave
\* the cache, and return to the get, what one of the two sequential orders
\* would: in particular the get never removes the entry the set has written.
C18_Atomic ==
    (threads.get_pc = "done" /\ threads.set_pc = "done") =>
        [cs |-> cache_service, value |-> threads.value] \in
            {SeqGetThenSet(threads.cs0, threads.key, threads.set_value,
                           threads.ttl, threads.t0),
             SeqSetThenGet(threads.cs0, threads.key, threads.set_value,
                           threads.ttl, threads.t0)}

IsPrefix(a, b) == Len(a) <= Len(b) /\ SubSeq(b, 1, Len(a)) = a

Count(seq, x) == Cardinality({i \in DOMAIN seq : seq[i] = x})

CompletedWithErrors == <<"Processing completed with errors">>

C23_AppendOnly ==
    [][(pc \in Nodes \cup {"finish"}) =>
          /\ IsPrefix(state.errors, state'.errors)
          /\ IsPrefix(state.completed_steps, state'.completed_steps)]_vars

C23_Witness ==
    /\ pc = "end"
    /\ outcome["script_generation"] = "raised"
    /\ state.cached
    /\ state.completed_steps = <<"classify", "research", "finished">>

\* C24: research, script_generation, thumbnail_generation and finish leave
\* query and query_metadata as classify left them.
C24_QueryFrame ==
    [][(pc \in {"research", "script_generation", "thumbnail_generation", "finish"}) =>
          /\ state'.query = state.query
          /\ state'.query_metadata = state.query_metadata]_vars

C24_Witness ==
    /\ pc = "end"
    /\ state.cached
    /\ state.query.query_type = "event"
    /\ state.script # None
    /\ DictGet(state.query_metadata, "video_url") = "u1"

LLMCollaborators == {"classifier", "researcher", "script_writer", "youtube_coach"}

\* C25: within one call each collaborator is invoked at most once and no
\* node runs twice, so a collaborator that failed is not invoked again.
C25_NoRetries ==
    /\ \A c \in LLMCollaborators : invoked[c] <= 1
    /\ \A n \in Nodes \cup {"finish"} : Count(executed, n) <= 1

C25_Witness ==
    /\ pc = "returned"
    /\ outcome["script_generation"] = "error"
    /\ invoked["classifier"] = 1
    /\ invoked["researcher"] = 1
    /\ invoked["script_writer"] = 1

\* C28: each node sets current_step to its own name, and the finish node
\* leaves current_step = "finished" with "finished" as the last element of
\* completed_steps, occurring exactly once.
C28_FinishedMarker ==
    [][/\ (pc \in Nodes) => state'.current_step = pc
       /\ (pc = "finish") =>
             /\ state'.current_step = "finished"
             /\ Last(state'.completed_steps) = "finished"
             /\ Count(state'.completed_steps, "finished") = 1
       /\ (pc = "end") =>
             /\ state'.current_step = "finished"
             /\ Last(state'.completed_steps) = "finished"
             /\ Count(state'.completed_steps, "finished") = 1]_vars

C28_Witness ==
    /\ pc = "returned"
    /\ Len(executed) = 5
    /\ state.current_step = "finished"
    /\ Last(state.completed_steps) = "finished"

\* C22: when a collaborator raises, the node returns the state it was
\* given with current_step set and one error appended; every other field,
\* warnings and completed_steps included, is as before the call.
C22_RaiseFrame ==
    [][(pc \in Nodes /\ outcome'[pc] \in {"raised", "no_method"}) =>
          /\ Len(state'.errors) = Len(state.errors) + 1
          /\ IsPrefix(state.errors, state'.errors)
          /\ \A f \in DOMAIN state \ {"current_step", "errors"} :
                state'[f] = state[f]]_vars

IsFallback(v) == v.t \in {"obj", "str"} /\ v.cls = "GameInfo" /\ v.id = "fallback"

\* C27: a Result whose game_info is placeholder data has the fallback
\* notice for the game in its warnings.
C27_FallbackFlagged ==
    (/\ pc = "returned"
     /\ "game_info" \in DOMAIN result
     /\ IsFallback(result.game_info))
    => \E i \in DOMAIN result.warnings :
          result.warnings[i] =
              FallbackWarning(DictGet(state.query_metadata, "game_name"))

\* A cache entry was written in this step.
Written ==
    \E k \in AllKeys :
        \/ /\ k \in DOMAIN cache_service'.cache
           /\ (k \notin DOMAIN cache_service.cache
               \/ cache_service'.cache[k] # cache_service.cache[k])
        \/ /\ k \in DOMAIN cache_service'.redis
           /\ (k \notin DOMAIN cache_service.redis
               \/ cache_service'.redis[k] # cache_service.redis[k])

\* C29: a cache entry is written only by a research that returns without
\* appending an error; a research that ends with an error stores nothing.
C29_NoStoreOnError ==
    [][/\ Written => (pc = "research" /\ state'.errors = state.errors)
       /\ (pc = "research" /\ Len(state'.errors) > Len(state.errors))
              => ~cur_research'.stored]_vars

C29_Witness ==
    /\ pc = "end"
    /\ outcome["research"] = "error"
    /\ cur_research.key # NoKey
    /\ "youtube" \in cur_research.lookups
    /\ cur_research.key \notin DOMAIN cache_service.cache
    /\ cur_research.key \notin DOMAIN cache_service.redis

GetOf(k) == \E fault \in BOOLEAN : DoGuardedGet(k, fault)
DeleteOf(k) == \E fault \in BOOLEAN : DoGuardedDelete(k, fault)
SetOf(k) ==
    \E value \in CacheValues, ttl \in CacheTTLs, fault \in BOOLEAN :
        DoGuardedSet(k, value, ttl, fault)
ClearAll == \E fault \in BOOLEAN : DoGuardedClear(fault)

\* C26: a get never returns an entry past its expiry; in the memory store
\* the first get of the key after expiry removes the entry, and an expired
\* entry is removed or replaced by no operation but get, set or delete of
\* its own key, or clear (not by get_stats or an operation on another key).
C26_LazyExpiry ==
    [][\A k \in OpKeys :
          LET mem == cache_service.cache
              expired == k \in DOMAIN mem /\ MemoryExpired(mem[k], now)
          IN  /\ (GetOf(k) /\ expired) =>
                    /\ last_op'.value = None
                    /\ k \notin DOMAIN cache_service'.cache
              /\ (/\ GetOf(k)
                  /\ cache_service.use_redis
                  /\ k \in DOMAIN cache_service.redis
                  /\ now > cache_service.redis[k].expire_at)
                    => last_op'.value = None
              /\ (/\ expired
                  /\ \/ k \notin DOMAIN cache_service'.cache
                     \/ cache_service'.cache[k] # mem[k])
                    => (GetOf(k) \/ DeleteOf(k) \/ SetOf(k) \/ ClearAll)]_vars

C26_Witness ==
    /\ last_op.op = "get_stats"
    /\ ~cache_service.use_redis
    /\ last_op.value.expired_entries = 1
    /\ ExpiredKeys(cache_service, now) # {}

\* C30: in the memory cache delete(k) returns true exactly when an entry
\* for k is stored, expired or not, removes it and leaves every other entry
\* alone; clear() removes every entry; a get(k) with no entry stored returns
\* absent, and an entry for k appears only by set(k).
C30_DeleteClear ==
    [][~cache_service.use_redis =>
          \A k \in OpKeys :
             LET mem == cache_service.cache
                 mem2 == cache_service'.cache
             IN  /\ DeleteOf(k) =>
                       /\ last_op'.ok <=> (k \in DOMAIN mem)
                       /\ DOMAIN mem2 = DOMAIN mem \ {k}
                       /\ \A j \in DOMAIN mem2 : mem2[j] = mem[j]
                 /\ ClearAll => DOMAIN mem2 = {}
                 /\ (GetOf(k) /\ k \notin DOMAIN mem) => last_op'.value = None
                 /\ (k \notin DOMAIN mem /\ k \in DOMAIN mem2) => SetOf(k)]_vars

C30_Witness ==
    /\ last_op.op = "delete"
    /\ last_op.ok
    /\ ~cache_service.use_redis
    /\ now > 0
    /\ DOMAIN cache_service.cache # {}

====
